---- MODULE Spec2Model ----
(***************************************************************************)
(* Model of the Lyria music gateway (src/index.js, lines 1-194): the two   *)
(* /api/generate-music handlers, generateFromPrompt with its pacing wait,  *)
(* retry loop and backoff, and the process-wide gate state                 *)
(* (isGenerating, lastCallAtMs, lastSuccessAtMs).                          *)
(*                                                                         *)
(* Node runs one handler at a time; a handler gives up control only at an  *)
(* await.  Every action below is therefore one run-to-next-await segment   *)
(* of a handler.  Time is in milliseconds.                                 *)
(*                                                                         *)
(* Lines 196-356 of the file are an earlier copy of the same program,      *)
(* without isGenerating, lastSuccessAtMs and the prompt length checks; it  *)
(* is not modelled.                                                        *)
(***************************************************************************)
EXTENDS Integers, Sequences, FiniteSets, TLC

VARIABLES
    now,              \* the value Date.now() returns
    MAX_ATTEMPTS,     \* configuration, fixed when the process starts
    isGenerating,
    lastCallAtMs,
    lastSuccessAtMs,
    pc,               \* per client: where its request's handler is suspended
    prompt,           \* per client: index in Prompts of the prompt it sent
    attempt,          \* per client: loop variable of the retry loop
    wakeAt,           \* per client: earliest time its pending sleep() resolves
    log,              \* per client: what its request did with the upstream client
    sent,             \* the latest HTTP response, with the request it answers
    lastDispatchAt,   \* time of the latest generateContent invocation, -1: none
    via,              \* per client: the route its request in flight came through
    scan,             \* a part list and what the part scan made of it (ScanSpec)
    backoff           \* a failed attempt and the delay computed for it (BackoffSpec)

gateway == << now, MAX_ATTEMPTS, isGenerating, lastCallAtMs, lastSuccessAtMs,
              pc, prompt, attempt, wakeAt, log, sent, lastDispatchAt, via >>

vars == << gateway, scan, backoff >>

----------------------------------------------------------------------------
(* Bounds of the model *)

NumClients == 2

StartTime == 10000

MaxTime == 5000

MaxEnvAttempts == 3

MaxParts == 3

ClockSteps == {1000}

Clients == 1..NumClients

(* Values of VERTEX_MAX_ATTEMPTS tried; 0 stands for the variable being unset *)
EnvMaxAttempts == {0, MaxEnvAttempts}

----------------------------------------------------------------------------
(* Configuration *)

MIN_INTERVAL_MS == 2000

HARD_COOLDOWN_MS == 7000

BASE_DELAY_MS == 1200

MaxPromptLen == 500

Max(a, b) == IF a >= b THEN a ELSE b

ConfigMaxAttempts(env) == Max(1, IF env = 0 THEN 1 ELSE env)

----------------------------------------------------------------------------
(* Strings are sequences of one-character strings, so that trim, length    *)
(* and includes are computed and not assumed.                              *)

WhiteSpace == {" ", "\t", "\n"}

RECURSIVE TrimStart(_)
TrimStart(s) ==
    IF s = << >> THEN s
    ELSE IF Head(s) \in WhiteSpace THEN TrimStart(Tail(s)) ELSE s

RECURSIVE TrimEnd(_)
TrimEnd(s) ==
    IF s = << >> THEN s
    ELSE IF s[Len(s)] \in WhiteSpace THEN TrimEnd(SubSeq(s, 1, Len(s) - 1)) ELSE s

Trim(s) == TrimEnd(TrimStart(s))

(* String.prototype.includes *)
Includes(s, sub) ==
    \E i \in 0..(Len(s) - Len(sub)) : SubSeq(s, i + 1, i + Len(sub)) = sub

Repeat(c, n) == [i \in 1..n |-> c]

----------------------------------------------------------------------------
(* shouldRetry *)

S_429 == << "4", "2", "9" >>

S_RESOURCE_EXHAUSTED ==
    << "R","E","S","O","U","R","C","E","_","E","X","H","A","U","S","T","E","D" >>

S_rate == << "r", "a", "t", "e" >>

S_Quota == << "Q", "u", "o", "t", "a" >>

S_503 == << "5", "0", "3" >>

ShouldRetryAlways(s) == TRUE

ShouldRetry(s) ==
    \/ Includes(s, S_429)
    \/ Includes(s, S_RESOURCE_EXHAUSTED)
    \/ Includes(s, S_rate)
    \/ Includes(s, S_Quota)
    \/ Includes(s, S_503)

NO_AUDIO_IN_RESPONSE ==
    << "N","O","_","A","U","D","I","O","_","I","N","_","R","E","S","P","O","N","S","E" >>

----------------------------------------------------------------------------
(* Request inputs: the prompt of a request body or query string *)

P_undefined == [type |-> "undefined"]

P_number == [type |-> "number", value |-> 7]

Str(chars) == [type |-> "string", value |-> chars]

Prompts ==
    << P_undefined,
       P_number,
       Str(<< >>),
       Str(<< " ", "\t", " " >>),
       Str(<< " " >> \o Repeat("a", MaxPromptLen) \o << "\n" >>),
       Str(Repeat("a", MaxPromptLen + 1)) >>

(* A JSON body can hold any of them; a query string holds no number *)
PostPrompts == DOMAIN Prompts

GetPrompts == { i \in DOMAIN Prompts : Prompts[i].type # "number" }

(* !prompt *)
Falsy(p) ==
    \/ p.type = "undefined"
    \/ p.type = "string" /\ p.value = << >>
    \/ p.type = "number" /\ p.value = 0

PromptErrorUntrimmed(p) ==
    IF Falsy(p) \/ p.type # "string" THEN "Invalid prompt"
    ELSE IF Len(p.value) = 0 THEN "Prompt cannot be empty"
         ELSE IF Len(p.value) > MaxPromptLen
              THEN "Prompt is too long (max 500 chars)"
              ELSE ""

(* The validation of both handlers: the error of the 400 response, or ""   *)
(* when the prompt passes.                                                  *)
PromptError(p) ==
    IF Falsy(p) \/ p.type # "string" THEN "Invalid prompt"
    ELSE LET promptText == Trim(p.value) IN
         IF Len(promptText) = 0 THEN "Prompt cannot be empty"
         ELSE IF Len(promptText) > MaxPromptLen
              THEN "Prompt is too long (max 500 chars)"
              ELSE ""

----------------------------------------------------------------------------
(* Upstream behaviour: generateContent resolves with a list of content     *)
(* parts, or rejects with an error message.                                 *)

HasData(part, field) ==
    /\ field \in DOMAIN part
    /\ "data" \in DOMAIN part[field]
    /\ part[field].data # ""

(* audioBase64 = null; the scan assigns only non-empty strings, and         *)
(* !audioBase64 holds of null and of "" alike.                              *)
Null == ""

RECURSIVE ScanPartsInlineFirst(_)
ScanPartsInlineFirst(parts) ==
    IF parts = << >> THEN Null
    ELSE LET part == Head(parts) IN
         IF HasData(part, "inlineData") THEN part.inlineData.data
         ELSE IF HasData(part, "audioData") THEN part.audioData.data
         ELSE ScanPartsInlineFirst(Tail(parts))

RECURSIVE ScanParts(_)
ScanParts(parts) ==
    IF parts = << >> THEN Null
    ELSE LET part == Head(parts) IN
         IF HasData(part, "audioData") THEN part.audioData.data
         ELSE IF HasData(part, "inlineData") THEN part.inlineData.data
         ELSE ScanParts(Tail(parts))

Responses ==
    { << >>,
      << [text |-> "lyrics"] >>,
      << [inlineData |-> [data |-> "A"]], [audioData |-> [data |-> "B"]] >>,
      << [audioData |-> [data |-> ""], inlineData |-> [data |-> "C"]] >> }

(* The content parts the scan is tried on, and every list of at most      *)
(* MaxParts of them                                                        *)
Parts ==
    { [text |-> "lyrics"],
      [inlineData |-> [data |-> "A"]],
      [audioData |-> [data |-> "B"]],
      [audioData |-> [data |-> ""], inlineData |-> [data |-> "C"]],
      [audioData |-> [data |-> "D"], inlineData |-> [data |-> "E"]],
      [audioData |-> [mimeType |-> "audio/wav"]] }

PartLists == UNION { [1..n -> Parts] : n \in 0..MaxParts }

E_401 == << "4", "0", "1" >>

E_quota == << "q", "u", "o", "t", "a" >>

E_generate == << "g", "e", "n", "e" >> \o S_rate

ErrMsgs == { S_503, E_generate, E_401, E_quota }

----------------------------------------------------------------------------
(* Backoff *)

RECURSIVE Pow2(_)
Pow2(n) == IF n = 0 THEN 1 ELSE 2 * Pow2(n - 1)

(* 0.75 + Math.random() * 0.5, in thousandths, for Math.random() 0, 0.5 and 0.998 *)
Jitter == {750, 1000, 1249}

(* Math.max(200, Number(process.env.VERTEX_BASE_DELAY_MS || 1200)); 0 stands *)
(* for the variable being unset                                             *)
ConfigBaseDelay(env) == Max(200, IF env = 0 THEN 1200 ELSE env)

(* The product cut off at the decimal point, not rounded *)
BackoffDelayTruncated(base, a, j) == (base * Pow2(a - 1) * j) \div 1000

(* Math.round(base * Math.pow(2, attempt - 1) * jitter), jitter in thousandths: *)
(* Math.round takes the nearest integer, a half going up                        *)
BackoffDelayFor(base, a, j) == (base * Pow2(a - 1) * j + 500) \div 1000

BackoffDelay(a, j) == BackoffDelayFor(BASE_DELAY_MS, a, j)

CooldownLeftUnclamped == HARD_COOLDOWN_MS - (now - lastSuccessAtMs)

CooldownLeft == Max(0, HARD_COOLDOWN_MS - (now - lastSuccessAtMs))

Horizon == StartTime + MaxTime

----------------------------------------------------------------------------
(* State *)

NoResponse == [status |-> 0]

NoBackoff == [env |-> 0, attempt |-> 0, jitter |-> 0, delay |-> -1]

Init ==
    /\ now = StartTime
    /\ MAX_ATTEMPTS \in { ConfigMaxAttempts(e) : e \in EnvMaxAttempts }
    /\ isGenerating = FALSE
    /\ lastCallAtMs = 0
    /\ lastSuccessAtMs = 0
    /\ pc = [r \in Clients |-> "idle"]
    /\ prompt = [r \in Clients |-> 0]
    /\ attempt = [r \in Clients |-> 0]
    /\ wakeAt = [r \in Clients |-> 0]
    /\ log = [r \in Clients |-> << >>]
    /\ sent = [client |-> 0, method |-> "", prompt |-> 0, log |-> << >>,
               res |-> NoResponse]
    /\ lastDispatchAt = -1
    /\ via = [r \in Clients |-> ""]
    /\ scan = [parts |-> << >>, audio |-> Null, done |-> FALSE]
    /\ backoff = NoBackoff

----------------------------------------------------------------------------
(* Pieces of the handlers *)

(* res.status(..).json(..) and return: the exchange is over, the handler's *)
(* locals are gone, and the client may send its next request.  p and lg    *)
(* are the prompt and the log of the request answered, m the route it     *)
(* came through.                                                          *)
SendResponse(r, m, p, lg, response) ==
    /\ sent' = [client |-> r, method |-> m, prompt |-> p, log |-> lg, res |-> response]
    /\ via' = [via EXCEPT ![r] = ""]
    /\ pc' = [pc EXCEPT ![r] = "idle"]
    /\ prompt' = [prompt EXCEPT ![r] = 0]
    /\ attempt' = [attempt EXCEPT ![r] = 0]
    /\ wakeAt' = [wakeAt EXCEPT ![r] = 0]
    /\ log' = [log EXCEPT ![r] = << >>]

BusyGateOpen == FALSE

(* if (isGenerating) *)
BusyGate == isGenerating

Busy429 ==
    [status |-> 429, error |-> "Server busy, try again", retryAfterMs |-> CooldownLeft]

(* model.generateContent(requestPayload) is invoked; the handler awaits it *)
Dispatch(r, a) ==
    /\ pc' = [pc EXCEPT ![r] = "upstream"]
    /\ attempt' = [attempt EXCEPT ![r] = a]
    /\ wakeAt' = [wakeAt EXCEPT ![r] = 0]
    /\ log' = [log EXCEPT ![r] = Append(@, [ev |-> "call"])]
    /\ lastDispatchAt' = now

(* await sleep(ms): a sleep that would end after the horizon is not begun *)
Sleep(r, where, ms) ==
    /\ now + ms <= Horizon
    /\ pc' = [pc EXCEPT ![r] = where]
    /\ wakeAt' = [wakeAt EXCEPT ![r] = now + ms]

(* The pacing sleep lasting the time elapsed, not the time remaining *)
GenerateFromPromptStartSleepsSince(r) ==
    LET since == now - lastCallAtMs IN
    IF since < MIN_INTERVAL_MS
    THEN /\ Sleep(r, "pacing", since)
         /\ UNCHANGED << attempt, log, lastDispatchAt >>
    ELSE Dispatch(r, 1)

(* generateFromPrompt up to its first await *)
GenerateFromPromptStart(r) ==
    LET since == now - lastCallAtMs IN
    IF since < MIN_INTERVAL_MS
    THEN /\ Sleep(r, "pacing", MIN_INTERVAL_MS - since)
         /\ UNCHANGED << attempt, log, lastDispatchAt >>
    ELSE Dispatch(r, 1)

HandlerReturnKeepsFlag(r, audioBase64, lg) ==
    /\ UNCHANGED isGenerating
    /\ SendResponse(r, via[r], prompt[r], lg, [status |-> 200, audioData |-> audioBase64])

(* isGenerating = false; return res.json({ audioData }) *)
HandlerReturn(r, audioBase64, lg) ==
    /\ isGenerating' = FALSE
    /\ SendResponse(r, via[r], prompt[r], lg, [status |-> 200, audioData |-> audioBase64])

HandlerCatchKeepsFlag(r, detail, lg) ==
    /\ UNCHANGED isGenerating
    /\ SendResponse(r, via[r], prompt[r], lg,
                    [status |-> 500, error |-> "Failed to generate music",
                     detail |-> detail])

(* catch (err): isGenerating = false; res.status(500).json(..) *)
HandlerCatch(r, detail, lg) ==
    /\ isGenerating' = FALSE
    /\ SendResponse(r, via[r], prompt[r], lg,
                    [status |-> 500, error |-> "Failed to generate music",
                     detail |-> detail])

(* sleep(delay) without its await: the next attempt starts at once *)
CatchNoSleep(r, msg, j, lg) ==
    IF ~ShouldRetry(msg) \/ attempt[r] = MAX_ATTEMPTS
    THEN /\ HandlerCatch(r, msg, lg)
         /\ UNCHANGED lastDispatchAt
    ELSE /\ pc' = [pc EXCEPT ![r] = "upstream"]
         /\ attempt' = [attempt EXCEPT ![r] = @ + 1]
         /\ log' = [log EXCEPT ![r] = Append(lg, [ev |-> "call"])]
         /\ lastDispatchAt' = now
         /\ UNCHANGED << isGenerating, prompt, wakeAt, sent, via >>

(* The loop bound off by one: attempt MAX_ATTEMPTS is retried too *)
CatchRetriesOnceMore(r, msg, j, lg) ==
    IF ~ShouldRetry(msg) \/ attempt[r] > MAX_ATTEMPTS
    THEN /\ HandlerCatch(r, msg, lg)
         /\ UNCHANGED lastDispatchAt
    ELSE /\ Sleep(r, "backoff", BackoffDelay(attempt[r], j))
         /\ log' = [log EXCEPT ![r] = Append(lg, [ev |-> "sleep"])]
         /\ UNCHANGED << isGenerating, prompt, attempt, sent, lastDispatchAt, via >>

(* The catch of the retry loop; lg is the request's log so far *)
Catch(r, msg, j, lg) ==
    IF ~ShouldRetry(msg) \/ attempt[r] = MAX_ATTEMPTS
    THEN /\ HandlerCatch(r, msg, lg)
         /\ UNCHANGED lastDispatchAt
    ELSE /\ Sleep(r, "backoff", BackoffDelay(attempt[r], j))
         /\ log' = [log EXCEPT ![r] = Append(lg, [ev |-> "sleep"])]
         /\ UNCHANGED << isGenerating, prompt, attempt, sent, lastDispatchAt, via >>

----------------------------------------------------------------------------
(* Actions: each is one run of a handler from an await to the next *)

(* The flag raised only by a request that has no pacing wait before it *)
PostRouteMarksAfterPacing(r, p, label) ==
    /\ pc[r] = "idle"
    /\ IF BusyGate
       THEN /\ SendResponse(r, label, p, << >>, Busy429)
            /\ UNCHANGED << isGenerating, lastDispatchAt >>
       ELSE IF PromptError(Prompts[p]) # ""
       THEN /\ SendResponse(r, label, p, << >>,
                            [status |-> 400, error |-> PromptError(Prompts[p])])
            /\ UNCHANGED << isGenerating, lastDispatchAt >>
       ELSE /\ isGenerating' = (now - lastCallAtMs >= MIN_INTERVAL_MS)
            /\ prompt' = [prompt EXCEPT ![r] = p]
            /\ via' = [via EXCEPT ![r] = label]
            /\ GenerateFromPromptStart(r)
            /\ UNCHANGED sent
    /\ UNCHANGED << scan, backoff, now, MAX_ATTEMPTS, lastCallAtMs, lastSuccessAtMs >>

(* The handler of app.post('/generate-music'), entered by a request that *)
(* the log line of the route calls label                                 *)
PostRoute(r, p, label) ==
    /\ pc[r] = "idle"
    /\ IF BusyGate
       THEN /\ SendResponse(r, label, p, << >>, Busy429)
            /\ UNCHANGED << isGenerating, lastDispatchAt >>
       ELSE IF PromptError(Prompts[p]) # ""
       THEN /\ SendResponse(r, label, p, << >>,
                            [status |-> 400, error |-> PromptError(Prompts[p])])
            /\ UNCHANGED << isGenerating, lastDispatchAt >>
       ELSE /\ isGenerating' = TRUE
            /\ prompt' = [prompt EXCEPT ![r] = p]
            /\ via' = [via EXCEPT ![r] = label]
            /\ GenerateFromPromptStart(r)
            /\ UNCHANGED sent
    /\ UNCHANGED << scan, backoff, now, MAX_ATTEMPTS, lastCallAtMs, lastSuccessAtMs >>

(* The prompt validated before the busy gate is looked at *)
GetRouteValidatesFirst(r, p, label) ==
    /\ pc[r] = "idle"
    /\ IF PromptError(Prompts[p]) # ""
       THEN /\ SendResponse(r, label, p, << >>,
                            [status |-> 400, error |-> PromptError(Prompts[p])])
            /\ UNCHANGED << isGenerating, lastDispatchAt >>
       ELSE IF BusyGate
       THEN /\ SendResponse(r, label, p, << >>, Busy429)
            /\ UNCHANGED << isGenerating, lastDispatchAt >>
       ELSE /\ isGenerating' = TRUE
            /\ prompt' = [prompt EXCEPT ![r] = p]
            /\ via' = [via EXCEPT ![r] = label]
            /\ GenerateFromPromptStart(r)
            /\ UNCHANGED sent
    /\ UNCHANGED << scan, backoff, now, MAX_ATTEMPTS, lastCallAtMs, lastSuccessAtMs >>

(* The flag cleared on every way out of the handler, the busy one included *)
GetRouteClearsOnBusy(r, p, label) ==
    /\ pc[r] = "idle"
    /\ IF BusyGate
       THEN /\ SendResponse(r, label, p, << >>, Busy429)
            /\ isGenerating' = FALSE
            /\ UNCHANGED lastDispatchAt
       ELSE IF PromptError(Prompts[p]) # ""
       THEN /\ SendResponse(r, label, p, << >>,
                            [status |-> 400, error |-> PromptError(Prompts[p])])
            /\ UNCHANGED << isGenerating, lastDispatchAt >>
       ELSE /\ isGenerating' = TRUE
            /\ prompt' = [prompt EXCEPT ![r] = p]
            /\ via' = [via EXCEPT ![r] = label]
            /\ GenerateFromPromptStart(r)
            /\ UNCHANGED sent
    /\ UNCHANGED << scan, backoff, now, MAX_ATTEMPTS, lastCallAtMs, lastSuccessAtMs >>

(* The handler of app.get('/generate-music') *)
GetRoute(r, p, label) ==
    /\ pc[r] = "idle"
    /\ IF BusyGate
       THEN /\ SendResponse(r, label, p, << >>, Busy429)
            /\ UNCHANGED << isGenerating, lastDispatchAt >>
       ELSE IF PromptError(Prompts[p]) # ""
       THEN /\ SendResponse(r, label, p, << >>,
                            [status |-> 400, error |-> PromptError(Prompts[p])])
            /\ UNCHANGED << isGenerating, lastDispatchAt >>
       ELSE /\ isGenerating' = TRUE
            /\ prompt' = [prompt EXCEPT ![r] = p]
            /\ via' = [via EXCEPT ![r] = label]
            /\ GenerateFromPromptStart(r)
            /\ UNCHANGED sent
    /\ UNCHANGED << scan, backoff, now, MAX_ATTEMPTS, lastCallAtMs, lastSuccessAtMs >>

(* The pacing sleep is over: the retry loop starts with attempt 1 *)
PacingWake(r) ==
    /\ pc[r] = "pacing"
    /\ now >= wakeAt[r]
    /\ Dispatch(r, 1)
    /\ UNCHANGED << scan, backoff, now, MAX_ATTEMPTS, isGenerating, lastCallAtMs, lastSuccessAtMs,
                    prompt, sent, via >>

(* The timestamps written only once audio was found *)
UpstreamResolveStampsOnAudio(r, parts) ==
    /\ pc[r] = "upstream"
    /\ LET audioBase64 == ScanParts(parts)
           lg == Append(log[r], [ev |-> "resolve", parts |-> parts])
       IN  IF audioBase64 = Null
           THEN /\ UNCHANGED << lastCallAtMs, lastSuccessAtMs >>
                /\ \E j \in Jitter : Catch(r, NO_AUDIO_IN_RESPONSE, j, lg)
           ELSE /\ lastCallAtMs' = now
                /\ lastSuccessAtMs' = lastCallAtMs'
                /\ HandlerReturn(r, audioBase64, lg)
                /\ UNCHANGED lastDispatchAt
    /\ UNCHANGED << scan, backoff, now, MAX_ATTEMPTS >>

(* generateContent resolved *)
UpstreamResolve(r, parts) ==
    /\ pc[r] = "upstream"
    /\ lastCallAtMs' = now
    /\ lastSuccessAtMs' = lastCallAtMs'
    /\ LET audioBase64 == ScanParts(parts)
           lg == Append(log[r], [ev |-> "resolve", parts |-> parts])
       IN  IF audioBase64 = Null
           THEN \E j \in Jitter : Catch(r, NO_AUDIO_IN_RESPONSE, j, lg)
           ELSE /\ HandlerReturn(r, audioBase64, lg)
                /\ UNCHANGED lastDispatchAt
    /\ UNCHANGED << scan, backoff, now, MAX_ATTEMPTS >>

(* The time of a rejected call recorded as the last call *)
UpstreamRejectStampsCall(r, msg, j) ==
    /\ pc[r] = "upstream"
    /\ lastCallAtMs' = now
    /\ Catch(r, msg, j, Append(log[r], [ev |-> "reject", msg |-> msg]))
    /\ UNCHANGED << scan, backoff, now, MAX_ATTEMPTS, lastSuccessAtMs >>

(* generateContent rejected *)
UpstreamReject(r, msg, j) ==
    /\ pc[r] = "upstream"
    /\ Catch(r, msg, j, Append(log[r], [ev |-> "reject", msg |-> msg]))
    /\ UNCHANGED << scan, backoff, now, MAX_ATTEMPTS, lastCallAtMs, lastSuccessAtMs >>

(* The backoff sleep is over: attempt++ (attempt < MAX_ATTEMPTS here, so   *)
(* the loop goes on)                                                        *)
BackoffWake(r) ==
    /\ pc[r] = "backoff"
    /\ now >= wakeAt[r]
    /\ Dispatch(r, attempt[r] + 1)
    /\ UNCHANGED << scan, backoff, now, MAX_ATTEMPTS, isGenerating, lastCallAtMs, lastSuccessAtMs,
                    prompt, sent, via >>

(* The clock advances *)
Tick(d) ==
    /\ now + d <= Horizon
    /\ now' = now + d
    /\ UNCHANGED << scan, backoff, MAX_ATTEMPTS, isGenerating, lastCallAtMs, lastSuccessAtMs,
                    pc, prompt, attempt, wakeAt, log, sent, lastDispatchAt, via >>

(* The steps of the gateway, for requests whose prompts are taken from   *)
(* post and get, the routes remembered as postLabel and getLabel, and    *)
(* the clock advancing by one of steps                                   *)
NextOver(post, get, postLabel, getLabel, steps) ==
    \/ \E r \in Clients, p \in post : PostRoute(r, p, postLabel)
    \/ \E r \in Clients, p \in get : GetRoute(r, p, getLabel)
    \/ \E r \in Clients : PacingWake(r)
    \/ \E r \in Clients, parts \in Responses : UpstreamResolve(r, parts)
    \/ \E r \in Clients, msg \in ErrMsgs, j \in Jitter : UpstreamReject(r, msg, j)
    \/ \E r \in Clients : BackoffWake(r)
    \/ \E d \in steps : Tick(d)

(* Which route a request came through is not remembered *)
Next == NextOver(PostPrompts, GetPrompts, "", "", ClockSteps)

Spec == Init /\ [][Next]_vars

(* Timers fire, the clock runs, and every generateContent call settles *)
Settle(r) ==
    \/ \E parts \in Responses : UpstreamResolve(r, parts)
    \/ \E msg \in ErrMsgs, j \in Jitter : UpstreamReject(r, msg, j)

Fairness ==
    /\ WF_vars(\E d \in ClockSteps : Tick(d))
    /\ \A r \in Clients :
          /\ WF_vars(PacingWake(r))
          /\ WF_vars(BackoffWake(r))
          /\ WF_vars(Settle(r))

(* What a request does once accepted does not depend on its prompt: the  *)
(* fair specification sends one prompt that passes and one that does not *)
FairPrompts ==
    { CHOOSE i \in DOMAIN Prompts : PromptError(Prompts[i]) = "",
      CHOOSE i \in DOMAIN Prompts : PromptError(Prompts[i]) # "" }

FairNext == NextOver(FairPrompts, FairPrompts \cap GetPrompts, "", "", ClockSteps)

FairSpec == Init /\ [][FairNext]_vars /\ Fairness

(* The gateway with the route of every request remembered *)
RouteNext == NextOver(FairPrompts, FairPrompts \cap GetPrompts, "POST", "GET", ClockSteps)

RouteSpec == Init /\ [][RouteNext]_vars

(* The gateway on a clock of half seconds *)
HalfSeconds == {500}

PacingNext == NextOver(FairPrompts, FairPrompts \cap GetPrompts, "", "", HalfSeconds)

PacingSpec == Init /\ [][PacingNext]_vars

----------------------------------------------------------------------------
(* The part scan on its own: every part list, scanned once *)

ScanInit ==
    /\ now = StartTime
    /\ MAX_ATTEMPTS = ConfigMaxAttempts(0)
    /\ isGenerating = FALSE
    /\ lastCallAtMs = 0
    /\ lastSuccessAtMs = 0
    /\ pc = [r \in Clients |-> "idle"]
    /\ prompt = [r \in Clients |-> 0]
    /\ attempt = [r \in Clients |-> 0]
    /\ wakeAt = [r \in Clients |-> 0]
    /\ log = [r \in Clients |-> << >>]
    /\ sent = [client |-> 0, method |-> "", prompt |-> 0, log |-> << >>,
               res |-> NoResponse]
    /\ lastDispatchAt = -1
    /\ via = [r \in Clients |-> ""]
    /\ \E parts \in PartLists : scan = [parts |-> parts, audio |-> Null, done |-> FALSE]
    /\ backoff = NoBackoff

Scan ==
    /\ ~scan.done
    /\ scan' = [scan EXCEPT !.audio = ScanParts(scan.parts), !.done = TRUE]
    /\ UNCHANGED << gateway, backoff >>

ScanNext == Scan

ScanSpec == ScanInit /\ [][ScanNext]_vars

----------------------------------------------------------------------------
(* The backoff delay on its own: every failed attempt that is retried, every *)
(* jitter in thousandths, and base delays around the floor of 200            *)

EnvBaseDelays == {0, 1, 200, 201, 202, 203, 2000}

(* 0.75 + Math.random() * 0.5, in thousandths, for every Math.random() in [0, 1) *)
JitterRange == 750..1249

BackoffInit ==
    /\ now = StartTime
    /\ MAX_ATTEMPTS = ConfigMaxAttempts(0)
    /\ isGenerating = FALSE
    /\ lastCallAtMs = 0
    /\ lastSuccessAtMs = 0
    /\ pc = [r \in Clients |-> "idle"]
    /\ prompt = [r \in Clients |-> 0]
    /\ attempt = [r \in Clients |-> 0]
    /\ wakeAt = [r \in Clients |-> 0]
    /\ log = [r \in Clients |-> << >>]
    /\ sent = [client |-> 0, method |-> "", prompt |-> 0, log |-> << >>,
               res |-> NoResponse]
    /\ lastDispatchAt = -1
    /\ via = [r \in Clients |-> ""]
    /\ scan = [parts |-> << >>, audio |-> Null, done |-> FALSE]
    /\ \E env \in EnvBaseDelays, a \in 1..MaxEnvAttempts, j \in JitterRange :
          backoff = [env |-> env, attempt |-> a, jitter |-> j, delay |-> -1]

Backoff ==
    /\ backoff.delay < 0
    /\ backoff' = [backoff EXCEPT
                      !.delay = BackoffDelayFor(ConfigBaseDelay(backoff.env),
                                                backoff.attempt, backoff.jitter)]
    /\ UNCHANGED << gateway, scan >>

BackoffNext == Backoff

BackoffSpec == BackoffInit /\ [][BackoffNext]_vars

----------------------------------------------------------------------------
(* Vocabulary of the properties *)

(* The requests between passing the busy gate and sending their response *)
InFlight == { r \in Clients : pc[r] \in {"pacing", "upstream", "backoff"} }

Count(lg, ev) == Cardinality({ i \in DOMAIN lg : lg[i].ev = ev })

(* A response is sent in this step (one equal to the latest is not seen) *)
Responds == sent' # sent

(* Client r's request arrives in this step *)
Arrives(r) == pc[r] = "idle" /\ (pc'[r] # "idle" \/ (Responds /\ sent'.client = r))

IsString(p) == p.type = "string"

TrimmedLen(p) == Len(Trim(p.value))

(* The prompts that are strings of trimmed length 0 or above the maximum *)
BadPrompts ==
    { i \in DOMAIN Prompts :
        /\ IsString(Prompts[i])
        /\ (TrimmedLen(Prompts[i]) = 0 \/ TrimmedLen(Prompts[i]) > MaxPromptLen) }

EmptyOrTooLong(i) == i \in BadPrompts

----------------------------------------------------------------------------
(* C1. Single flight: at most one request is ever between passing the busy *)
(* gate and sending its response, so at most one generateContent call is   *)
(* outstanding; and a request that passes the gate found the flag clear    *)
(* and no other request in flight.                                         *)
C1_SingleFlight ==
    /\ [](Cardinality(InFlight) <= 1)
    /\ [][\A r \in Clients :
            (pc[r] = "idle" /\ pc'[r] # "idle") => (~isGenerating /\ InFlight = {})]_vars

(* A second request arrived while the first awaited the upstream call and  *)
(* was turned away                                                          *)
C1_Witness ==
    \E r \in Clients :
        /\ pc[r] = "upstream"
        /\ sent.client \in Clients \ {r}
        /\ sent.res.status = 429
        /\ lastDispatchAt > StartTime

(* C2. Busy rejection: a request that arrives while isGenerating is true   *)
(* is answered 429 with retryAfterMs = max(0, HARD_COOLDOWN_MS - (now -    *)
(* lastSuccessAtMs)), which lies in [0, HARD_COOLDOWN_MS], and invokes     *)
(* nothing upstream.                                                        *)
C2_BusyRejection ==
    [][\A r \in Clients :
         (Arrives(r) /\ isGenerating) =>
            /\ sent'.client = r
            /\ sent'.res.status = 429
            /\ LET left == HARD_COOLDOWN_MS - (now - lastSuccessAtMs)
               IN  sent'.res.retryAfterMs = IF left > 0 THEN left ELSE 0
            /\ sent'.res.retryAfterMs \in 0..HARD_COOLDOWN_MS
            /\ sent'.log = << >>
            /\ pc'[r] = "idle"
            /\ UNCHANGED << log, lastDispatchAt >>]_vars

(* A busy rejection some time after a success, with cooldown left *)
C2_Witness ==
    /\ sent.res.status = 429
    /\ sent.res.retryAfterMs > 0
    /\ sent.res.retryAfterMs < HARD_COOLDOWN_MS
    /\ isGenerating

(* C3. Guaranteed release: whenever a request that passed the busy gate is *)
(* answered, isGenerating is false at that moment, whatever the exit path; *)
(* the flag is never left set with no request in flight.                   *)
C3_GuaranteedRelease ==
    /\ [](isGenerating => InFlight # {})
    /\ [][(Responds /\ sent'.res.status # 429) => ~isGenerating']_vars

(* Every attempt failed with a retryable error and the budget ran out *)
C3_Witness ==
    /\ sent.res.status = 500
    /\ MAX_ATTEMPTS = MaxEnvAttempts
    /\ Count(sent.log, "call") = MAX_ATTEMPTS
    /\ sent.res.detail = S_503
    /\ ~isGenerating

(* C4. No permanent wedge: once isGenerating is true it becomes false      *)
(* again, and a request in flight is answered with 200 or 500, provided    *)
(* timers fire and every upstream call settles.                            *)
C4_NoWedge ==
    /\ isGenerating ~> ~isGenerating
    /\ \A r \in Clients :
          (r \in InFlight) ~>
              (pc[r] = "idle" /\ sent.client = r /\ sent.res.status \in {200, 500})

(* A request failed on a permanent error and the gate is open again *)
C4_Witness ==
    /\ sent.res.status = 500
    /\ sent.res.detail = E_401
    /\ ~isGenerating
    /\ InFlight = {}

(* C5 as claimed: a request whose prompt has trimmed length 0 or above 500 *)
(* is answered 400 in every gateway state, and calls nothing upstream.     *)
C5_Claimed ==
    EmptyOrTooLong(sent.prompt) => (sent.res.status = 400 /\ sent.log = << >>)

(* C5, amended: such a request never reaches the upstream client, and is   *)
(* answered 400 when it arrives while no generation is in flight, 429      *)
(* when one is.                                                             *)
C5_PromptValidation ==
    /\ [](\A r \in Clients : ~EmptyOrTooLong(prompt[r]))
    /\ [](EmptyOrTooLong(sent.prompt) => sent.log = << >>)
    /\ [][\A r \in Clients, i \in DOMAIN Prompts :
            (/\ Arrives(r)
             /\ EmptyOrTooLong(i)
             /\ prompt'[r] = i \/ (Responds /\ sent'.client = r /\ sent'.prompt = i)) =>
               /\ sent'.client = r
               /\ sent'.prompt = i
               /\ sent'.res.status = IF isGenerating THEN 429 ELSE 400
               /\ pc'[r] = "idle"
               /\ UNCHANGED << log, lastDispatchAt >>]_vars

(* A too-long prompt turned away after the gateway has served a request *)
C5_Witness ==
    /\ EmptyOrTooLong(sent.prompt)
    /\ TrimmedLen(Prompts[sent.prompt]) > MaxPromptLen
    /\ sent.res.status = 400
    /\ lastSuccessAtMs > 0

----------------------------------------------------------------------------
(* Vocabulary of the retry properties, stated apart from the model's       *)
(* shouldRetry and part scan                                               *)

RetrySignatures == { S_429, S_RESOURCE_EXHAUSTED, S_rate, S_Quota, S_503 }

(* sig occurs in msg at position i *)
OccursAt(msg, sig, i) ==
    /\ i + Len(sig) - 1 <= Len(msg)
    /\ \A k \in 1..Len(sig) : msg[i + k - 1] = sig[k]

Retryable(msg) ==
    \E sig \in RetrySignatures : \E i \in 1..Len(msg) : OccursAt(msg, sig, i)

DataOf(part, field) ==
    IF field \in DOMAIN part /\ "data" \in DOMAIN part[field]
    THEN part[field].data
    ELSE ""

CarriesAudio(part) == DataOf(part, "audioData") # "" \/ DataOf(part, "inlineData") # ""

(* The data of the first part, in list order, that carries any; audioData  *)
(* before inlineData within that part                                      *)
FirstAudio(parts) ==
    IF \A i \in DOMAIN parts : ~CarriesAudio(parts[i]) THEN ""
    ELSE LET i == CHOOSE n \in DOMAIN parts :
                     /\ CarriesAudio(parts[n])
                     /\ \A m \in 1..(n - 1) : ~CarriesAudio(parts[m])
         IN  IF DataOf(parts[i], "audioData") # ""
             THEN DataOf(parts[i], "audioData")
             ELSE DataOf(parts[i], "inlineData")

IsOutcome(e) == e.ev \in {"reject", "resolve"}

Outcomes(lg) == { i \in DOMAIN lg : IsOutcome(lg[i]) }

FailedRetryably(e) == e.ev = "reject" /\ Retryable(e.msg)

FailedForGood(e) == e.ev = "reject" /\ ~Retryable(e.msg)

GaveAudio(e) == e.ev = "resolve" /\ FirstAudio(e.parts) # ""

GaveNoAudio(e) == e.ev = "resolve" /\ FirstAudio(e.parts) = ""

(* lg is k attempts with one backoff sleep after each of the first k - 1:  *)
(* call, outcome, sleep, ..., call, outcome                                *)
AttemptsWithBackoffBetween(lg, k) ==
    /\ Len(lg) = 3 * k - 1
    /\ \A n \in 1..k :
          /\ lg[3 * n - 2].ev = "call"
          /\ IsOutcome(lg[3 * n - 1])
          /\ n < k => lg[3 * n].ev = "sleep"

----------------------------------------------------------------------------
(* C6 as claimed: any two successive upstream call attempts, of one        *)
(* request or of two, after a success or a failure, are dispatched at      *)
(* least MIN_INTERVAL_MS apart.                                            *)
C6_Claimed ==
    [][\A r \in Clients :
         (pc[r] # "upstream" /\ pc'[r] = "upstream" /\ lastDispatchAt >= 0) =>
            now - lastDispatchAt >= MIN_INTERVAL_MS]_vars

(* C7. Retry then success: when attempts 1..k-1 of a request failed with   *)
(* retryable errors and attempt k (k <= MAX_ATTEMPTS) gave audio, the      *)
(* response is 200 with attempt k's audio, after exactly k upstream calls  *)
(* and k-1 backoff sleeps, one between each two consecutive calls.         *)
C7_RetryThenSuccess ==
    LET lg == sent.log
        k == Cardinality(Outcomes(lg))
    IN  ( /\ k >= 1
          /\ GaveAudio(lg[Len(lg)])
          /\ \A i \in Outcomes(lg) \ {Len(lg)} : FailedRetryably(lg[i]) ) =>
            /\ sent.res.status = 200
            /\ sent.res.audioData = FirstAudio(lg[Len(lg)].parts)
            /\ k <= MAX_ATTEMPTS
            /\ Count(lg, "call") = k
            /\ Count(lg, "sleep") = k - 1
            /\ AttemptsWithBackoffBetween(lg, k)

(* Two retryable failures, then audio on the third attempt *)
C7_Witness ==
    /\ sent.res.status = 200
    /\ Count(sent.log, "call") = 3
    /\ Count(sent.log, "sleep") = 2
    /\ sent.res.audioData = "A"

(* C8. Non-retryable error: an upstream failure whose message contains     *)
(* none of the retry signatures ends the request at once with 500 and      *)
(* that message: no backoff sleep and no further call follows it,          *)
(* whatever attempts remain.                                               *)
C8_NonRetryable ==
    /\ \A r \in Clients : \A i \in DOMAIN log[r] : ~FailedForGood(log[r][i])
    /\ \A i \in DOMAIN sent.log :
          FailedForGood(sent.log[i]) =>
             /\ i = Len(sent.log)
             /\ sent.res.status = 500
             /\ sent.res.detail = sent.log[i].msg

(* A permanent error on the second attempt, with a third still allowed *)
C8_Witness ==
    /\ MAX_ATTEMPTS = 3
    /\ Count(sent.log, "call") = 2
    /\ FailedForGood(sent.log[Len(sent.log)])
    /\ sent.res.status = 500
    /\ sent.res.detail = E_quota

(* C9. No audio in response: an upstream call that resolves with no part   *)
(* carrying audio data ends the request with 500 NO_AUDIO_IN_RESPONSE and   *)
(* no further call, even when attempts remain; at that response             *)
(* isGenerating is false and lastCallAtMs and lastSuccessAtMs are the time *)
(* of that call's return.                                                   *)
C9_NoAudio ==
    /\ [](\A r \in Clients : \A i \in DOMAIN log[r] : ~GaveNoAudio(log[r][i]))
    /\ [](\A i \in DOMAIN sent.log :
            GaveNoAudio(sent.log[i]) =>
               /\ i = Len(sent.log)
               /\ sent.res.status = 500
               /\ sent.res.detail = NO_AUDIO_IN_RESPONSE)
    /\ [][(/\ Responds
           /\ sent'.log # << >>
           /\ GaveNoAudio(sent'.log[Len(sent'.log)])) =>
              /\ ~isGenerating'
              /\ lastCallAtMs' = now
              /\ lastSuccessAtMs' = now]_vars

(* No audio on the first of three attempts, well after the previous call *)
C9_Witness ==
    /\ MAX_ATTEMPTS = 3
    /\ sent.res.status = 500
    /\ sent.res.detail = NO_AUDIO_IN_RESPONSE
    /\ Count(sent.log, "call") = 1
    /\ lastCallAtMs = now
    /\ now > StartTime
    /\ ~isGenerating

(* C10. Part scan order: the scan returns, unmodified, the data of the     *)
(* first part in list order that carries a non-empty audioData.data or     *)
(* inlineData.data, audioData before inlineData within one part; so        *)
(* [{inlineData A}, {audioData B}] yields A.                               *)
C10_ScanOrder == scan.done => scan.audio = FirstAudio(scan.parts)

C10_Witness ==
    /\ scan.done
    /\ scan.parts = << [inlineData |-> [data |-> "A"]], [audioData |-> [data |-> "B"]] >>
    /\ scan.audio = "A"

----------------------------------------------------------------------------
Routes == {"POST", "GET"}

(* In this step the two handlers do the same with a request of client r: *)
(* whatever one of them makes of a prompt, the other makes of it too     *)
SameHandler(r) ==
    \A p \in FairPrompts, label \in Routes :
       PostRoute(r, p, label) <=> GetRoute(r, p, label)

(* C11. Endpoint equivalence over one shared gate: for the same prompt,  *)
(* starting state and upstream behaviour the GET and the POST handler    *)
(* send the same response and change the gateway state in the same way,  *)
(* and both use the one isGenerating flag: while a generation is in      *)
(* flight through either route, a request on either route is answered    *)
(* 429.                                                                  *)
C11_EndpointEquivalence ==
    [][\A r \in Clients :
         Arrives(r) =>
            /\ SameHandler(r)
            /\ (\E q \in InFlight : via[q] \in Routes) =>
                  /\ sent'.client = r
                  /\ sent'.method \in Routes
                  /\ sent'.res.status = 429
                  /\ UNCHANGED << isGenerating, via >>]_vars

(* A POST answered 429 during a generation that came through GET; the    *)
(* generation still in flight is the one that was in flight then, for    *)
(* its response would have replaced the 429 as the latest                *)
C11_Witness ==
    \E q, r \in Clients :
       /\ q # r
       /\ q \in InFlight
       /\ via[q] = "GET"
       /\ isGenerating
       /\ sent.client = r
       /\ sent.method = "POST"
       /\ sent.res.status = 429

----------------------------------------------------------------------------
(* Client r's generateContent call settles in this step *)
Settles(r) == pc[r] = "upstream" /\ pc'[r] # "upstream"

(* C12. lastCallAtMs is the timestamp of the most recently attempted     *)
(* upstream call: once a generateContent invocation has completed, with  *)
(* success or with failure, lastCallAtMs is the time of that attempt     *)
(* (the time it was dispatched or the time it completed).                *)
C12_Claimed ==
    [][\A r \in Clients :
         Settles(r) => lastCallAtMs' \in {lastDispatchAt, now}]_vars

----------------------------------------------------------------------------
(* Client r's request passes the busy gate and validation in this step *)
Accepted(r) == pc[r] = "idle" /\ pc'[r] # "idle"

(* The first generateContent invocation of r's request is made in this step *)
FirstDispatch(r) == pc[r] \in {"idle", "pacing"} /\ pc'[r] = "upstream"

(* C13. Pacing after a success: a request that passes the busy gate less *)
(* than MIN_INTERVAL_MS after the previous successful call was recorded  *)
(* waits until lastCallAtMs + MIN_INTERVAL_MS, and its first invocation  *)
(* is not dispatched before that time (arriving 500 ms after the call,   *)
(* it waits at least 1500 ms); a request that arrives MIN_INTERVAL_MS or *)
(* more after the call is dispatched without a pacing wait.              *)
C13_PacingAfterSuccess ==
    [][\A r \in Clients :
         /\ (Accepted(r) /\ now - lastCallAtMs < MIN_INTERVAL_MS) =>
               /\ pc'[r] = "pacing"
               /\ wakeAt'[r] = lastCallAtMs + MIN_INTERVAL_MS
               /\ Count(log'[r], "call") = 0
         /\ (Accepted(r) /\ now - lastCallAtMs >= MIN_INTERVAL_MS) =>
               /\ pc'[r] = "upstream"
               /\ log'[r] = << [ev |-> "call"] >>
         /\ FirstDispatch(r) =>
               /\ attempt'[r] = 1
               /\ now >= lastCallAtMs + MIN_INTERVAL_MS]_vars

(* A request that arrived 500 ms after a successful call, waiting 1500 ms *)
C13_Witness ==
    \E r \in Clients :
       /\ pc[r] = "pacing"
       /\ lastSuccessAtMs = lastCallAtMs
       /\ lastCallAtMs = now - 500
       /\ wakeAt[r] - now = 1500
       /\ sent.res.status = 200

----------------------------------------------------------------------------
(* C14 as claimed. Step order of the gate: isGenerating is set to true   *)
(* only after the request's pacing wait has finished (busy-gate check,   *)
(* pacing wait, then mark), so it is still false while the request that  *)
(* passed the gate waits.                                                *)
C14_Claimed == \A r \in Clients : pc[r] = "pacing" => ~isGenerating

(* C14. Step order of the gate: isGenerating is set to true in the run   *)
(* of the handler that checks the busy gate and validates the prompt,    *)
(* before the request's pacing wait begins (busy-gate check, mark, then  *)
(* pacing wait); it is true throughout the pacing wait, and nothing but  *)
(* a request passing the gate sets it.                                   *)
C14_MarkBeforePacing ==
    /\ [](\A r \in Clients : pc[r] = "pacing" => isGenerating)
    /\ [][\A r \in Clients : Accepted(r) => ~isGenerating /\ isGenerating']_vars
    /\ [][(~isGenerating /\ isGenerating') => \E r \in Clients : Accepted(r)]_vars

(* A request in its pacing wait, the timer not yet due, the flag set *)
C14_Witness ==
    \E r \in Clients :
       /\ pc[r] = "pacing"
       /\ now < wakeAt[r]
       /\ log[r] = << >>
       /\ isGenerating

----------------------------------------------------------------------------
(* The latest response answers a request that passed gate and validation *)
AnswersAccepted == sent.res.status \in {200, 500}

(* Every attempt recorded in lg failed with a retryable error *)
EveryAttemptFailedRetryably(lg) ==
    /\ Outcomes(lg) # {}
    /\ \A i \in Outcomes(lg) : FailedRetryably(lg[i])

(* C15. Attempt budget: a request that passes the busy gate and          *)
(* validation invokes the upstream client at least once and at most      *)
(* MAX_ATTEMPTS times (exactly once when MAX_ATTEMPTS is 1, the          *)
(* default); when every attempt fails retryably it stops after attempt   *)
(* MAX_ATTEMPTS, with no backoff wait after that attempt, and answers    *)
(* 500 with the last error.                                              *)
C15_AttemptBudget ==
    /\ \A r \in Clients :
          /\ Count(log[r], "call") <= MAX_ATTEMPTS
          /\ attempt[r] = Count(log[r], "call")
          /\ pc[r] \in {"upstream", "backoff"} => Count(log[r], "call") >= 1
          /\ pc[r] = "backoff" => Count(log[r], "call") < MAX_ATTEMPTS
    /\ AnswersAccepted =>
          LET lg == sent.log IN
          /\ Count(lg, "call") >= 1
          /\ Count(lg, "call") <= MAX_ATTEMPTS
          /\ MAX_ATTEMPTS = 1 => Count(lg, "call") = 1
          /\ EveryAttemptFailedRetryably(lg) =>
                /\ AttemptsWithBackoffBetween(lg, MAX_ATTEMPTS)
                /\ Count(lg, "call") = MAX_ATTEMPTS
                /\ Count(lg, "sleep") = MAX_ATTEMPTS - 1
                /\ sent.res.status = 500
                /\ sent.res.detail = lg[Len(lg)].msg

(* Three attempts, each failed retryably, answered 500 with the last error *)
C15_Witness ==
    /\ MAX_ATTEMPTS = 3
    /\ sent.res.status = 500
    /\ EveryAttemptFailedRetryably(sent.log)
    /\ Count(sent.log, "call") = 3
    /\ sent.log[Len(sent.log)].ev = "reject"
    /\ sent.res.detail = sent.log[Len(sent.log)].msg

----------------------------------------------------------------------------
(* BASE_DELAY_MS * 2^(n-1), for the base delay configured by env *)
Nominal(env, n) == ConfigBaseDelay(env) * Pow2(n - 1)

(* C16 as claimed. Backoff bounds: the wait after failed attempt n is    *)
(* round(BASE_DELAY_MS * 2^(n-1) * j) for j in [0.75, 1.25), so it lies  *)
(* between 0.75 and 1.25 times BASE_DELAY_MS * 2^(n-1), the nominal      *)
(* delay doubles with each attempt, and the wait is never less than      *)
(* 150 ms.                                                               *)
C16_Claimed ==
    backoff.delay >= 0 =>
       LET nominal == Nominal(backoff.env, backoff.attempt) IN
       /\ 1000 * backoff.delay >= 750 * nominal
       /\ 1000 * backoff.delay <= 1250 * nominal
       /\ Nominal(backoff.env, backoff.attempt + 1) = 2 * nominal
       /\ backoff.delay >= 150

(* C16. Backoff bounds: the wait after failed attempt n is the integer   *)
(* nearest to BASE_DELAY_MS * 2^(n-1) * j for j in [0.75, 1.25), so it   *)
(* lies within half a millisecond of the band from 0.75 to 1.25 times    *)
(* BASE_DELAY_MS * 2^(n-1), and inside the band when that nominal delay  *)
(* is a multiple of 4, as with the default 1200; the nominal delay       *)
(* doubles with each attempt, and the wait is never less than 150 ms     *)
(* because BASE_DELAY_MS >= 200.                                         *)
C16_BackoffBounds ==
    backoff.delay >= 0 =>
       LET nominal == Nominal(backoff.env, backoff.attempt)
           product == nominal * backoff.jitter
       IN  /\ 2 * (1000 * backoff.delay - product) <= 1000
           /\ 2 * (product - 1000 * backoff.delay) < 1000
           /\ 1000 * backoff.delay >= 750 * nominal - 500
           /\ 1000 * backoff.delay <= 1250 * nominal + 500
           /\ nominal % 4 = 0 =>
                 /\ 1000 * backoff.delay >= 750 * nominal
                 /\ 1000 * backoff.delay <= 1250 * nominal
           /\ ConfigBaseDelay(backoff.env) >= 200
           /\ Nominal(backoff.env, backoff.attempt + 1) = 2 * nominal
           /\ backoff.delay >= 150

(* The shortest wait there is: base delay at its floor, first attempt,   *)
(* smallest jitter                                                       *)
C16_Witness ==
    /\ ConfigBaseDelay(backoff.env) = 200
    /\ backoff.attempt = 1
    /\ backoff.jitter = 750
    /\ backoff.delay = 150

----------------------------------------------------------------------------
(* The log of r's request after this step, answered in it or not *)
LogAfter(r) == IF pc'[r] = "idle" THEN sent'.log ELSE log'[r]

(* Client r's generateContent call returns without error in this step *)
Resolves(r) == Settles(r) /\ LogAfter(r)[Len(log[r]) + 1].ev = "resolve"

(* C17. lastCallAtMs and lastSuccessAtMs are equal in every reachable    *)
(* state and never decrease as the clock goes on; they are written only  *)
(* together, to the current time, in the step in which a generateContent *)
(* call returns without error.                                           *)
C17_TimestampsTogether ==
    /\ [](lastCallAtMs = lastSuccessAtMs)
    /\ [][/\ lastCallAtMs' >= lastCallAtMs
          /\ lastSuccessAtMs' >= lastSuccessAtMs
          /\ (lastCallAtMs' # lastCallAtMs \/ lastSuccessAtMs' # lastSuccessAtMs) =>
                \E r \in Clients : Resolves(r)
          /\ (\E r \in Clients : Resolves(r)) =>
                /\ lastCallAtMs' = now
                /\ lastSuccessAtMs' = now]_vars

(* Both timestamps at the time of a call that has just resolved, after a *)
(* rejected call of the same request left them alone                     *)
C17_Witness ==
    /\ lastCallAtMs = lastSuccessAtMs
    /\ lastCallAtMs = now
    /\ now > StartTime
    /\ sent.res.status = 200
    /\ Count(sent.log, "reject") >= 1
    /\ sent.log[Len(sent.log)].ev = "resolve"

----------------------------------------------------------------------------
GatewayState == << isGenerating, lastCallAtMs, lastSuccessAtMs >>

(* Client r's request is turned away, 429 or 400, in this step *)
Rejected(r) ==
    /\ pc[r] = "idle"
    /\ Responds
    /\ sent'.client = r
    /\ sent'.res.status \in {400, 429}

(* C18. Rejection frame: a request rejected with 429 or 400 leaves       *)
(* isGenerating, lastCallAtMs and lastSuccessAtMs as they were, so it    *)
(* never clears the busy flag held by the generation in flight, and      *)
(* leaves that generation where it is; the three variables change only   *)
(* in steps of the one request that holds the gate.                      *)
C18_RejectionFrame ==
    [][/\ \A r \in Clients :
             Rejected(r) =>
                /\ UNCHANGED GatewayState
                /\ InFlight' = InFlight
                /\ \A q \in InFlight :
                      /\ isGenerating'
                      /\ pc'[q] = pc[q]
                      /\ log'[q] = log[q]
       /\ GatewayState' # GatewayState =>
             \E r \in Clients :
                /\ Accepted(r) \/ Settles(r)
                /\ InFlight \subseteq {r}
                /\ InFlight' \subseteq {r}
                /\ \A q \in Clients \ {r} : pc'[q] = pc[q]]_vars

(* A request answered 429 while the holder of the gate waits in backoff, *)
(* the flag still set and both timestamps still at their initial value   *)
C18_Witness ==
    \E q, r \in Clients :
       /\ q # r
       /\ pc[q] = "backoff"
       /\ sent.client = r
       /\ sent.res.status = 429
       /\ isGenerating
       /\ lastCallAtMs = 0
       /\ lastSuccessAtMs = 0

====
